---------------------------- MODULE Spec2Model ----------------------------
(***************************************************************************)
(* Model of lib/set-field.c: the OpenFlow 1.2 set-field action codec.      *)
(*                                                                         *)
(* A wire record is a sequence of bytes (C offset i is element i + 1).     *)
(* A 32-bit OXM/NXM header is held as [hi, lo], its two 16-bit halves,     *)
(* and turned into / read from four network-order bytes by htonl / ntohl.  *)
(* Every error the decoder returns is OFPERR_OFPBAC_BAD_ARGUMENT; the      *)
(* `kind' field of a result names the return statement that produced it.   *)
(***************************************************************************)
EXTENDS Integers, Sequences, FiniteSets, TLC

VARIABLES pc, load, openflow, ofpacts, s, ret

vars == <<pc, load, openflow, ofpacts, s, ret>>

----------------------------------------------------------------------------
(* Bounds of the model *)

\* Declared record lengths tried by the decoder are 4, 8, ..., 8 * MaxLenUnits.
MaxLenUnits == 3

\* Instructions of other kinds already in the list before a call.
MaxPrior == 1

\* Byte values used for value bytes of records and actions.
ByteVals == {0, 1, 10}

----------------------------------------------------------------------------
(* Integer and byte helpers *)

ROUND_UP(x, y) == ((x + (y - 1)) \div y) * y

htons(x) == <<(x \div 256) % 256, x % 256>>

ntohs(b) == b[1] * 256 + b[2]

htonl(h) == htons(h.hi) \o htons(h.lo)

ntohl(b) == [hi |-> b[1] * 256 + b[2], lo |-> b[3] * 256 + b[4]]

Zeros(n) == [i \in 1..n |-> 0]

\* what a read beyond the end of a buffer yields: no program modelled here
\* performs one
Indeterminate == -1

\* the byte at C offset i of buf
ByteAt(buf, i) == IF i + 1 \in DOMAIN buf THEN buf[i + 1] ELSE Indeterminate

\* bytes at C offsets from .. from + n - 1 of buf
Bytes(buf, from, n) == [i \in 1..n |-> ByteAt(buf, from + i - 1)]

----------------------------------------------------------------------------
(* nx-match.h: header layout  vendor:16 | field:7 | hasmask:1 | length:8 *)

NXM_HEADER__(vendor, field, hasmask, length) ==
    [hi |-> vendor, lo |-> field * 512 + hasmask * 256 + length]

NXM_HEADER(vendor, field, length) == NXM_HEADER__(vendor, field, 0, length)

NXM_HEADER_W(vendor, field, length) == NXM_HEADER__(vendor, field, 1, length * 2)

OXM_CLASS == 32768

OXM_HEADER(field, length) == NXM_HEADER(OXM_CLASS, field, length)

OXM_HEADER_W(field, length) == NXM_HEADER_W(OXM_CLASS, field, length)

NXM_LENGTH(header) == header.lo % 256

NXM_HASMASK(header) == (header.lo \div 256) % 2

ZeroHeader == [hi |-> 0, lo |-> 0]

----------------------------------------------------------------------------
(* The field registry (meta-flow): a sample of its table.                  *)
(* MFF_IN_PORT is the 16-bit port whose OXM header declares 4 value bytes; *)
(* MFF_IP_TTL has no OXM header; MFF_ETH_TYPE is read-only.                *)

mf_fields ==
    [MFF_ETH_TYPE |->
        [id |-> "MFF_ETH_TYPE", name |-> <<"d","l","_","t","y","p","e">>,
         n_bytes |-> 2, n_bits |-> 16, writable |-> FALSE, string |-> "MFS_HEXADECIMAL",
         nxm_header |-> NXM_HEADER(0, 3, 2), oxm_header |-> OXM_HEADER(5, 2)],
     MFF_VLAN_TCI |->
        [id |-> "MFF_VLAN_TCI", name |-> <<"v","l","a","n","_","t","c","i">>,
         n_bytes |-> 2, n_bits |-> 16, writable |-> TRUE, string |-> "MFS_HEXADECIMAL",
         nxm_header |-> NXM_HEADER(0, 4, 2), oxm_header |-> NXM_HEADER(0, 4, 2)],
     MFF_VLAN_PCP |->
        [id |-> "MFF_VLAN_PCP", name |-> <<"d","l","_","v","l","a","n","_","p","c","p">>,
         n_bytes |-> 1, n_bits |-> 3, writable |-> TRUE, string |-> "MFS_DECIMAL",
         nxm_header |-> ZeroHeader, oxm_header |-> OXM_HEADER(7, 1)],
     MFF_IPV4_SRC |->
        [id |-> "MFF_IPV4_SRC", name |-> <<"n","w","_","s","r","c">>,
         n_bytes |-> 4, n_bits |-> 32, writable |-> TRUE, string |-> "MFS_IPV4",
         nxm_header |-> NXM_HEADER(0, 7, 4), oxm_header |-> OXM_HEADER(11, 4)],
     MFF_TCP_SRC |->
        [id |-> "MFF_TCP_SRC", name |-> <<"t","p","_","s","r","c">>,
         n_bytes |-> 2, n_bits |-> 16, writable |-> TRUE, string |-> "MFS_DECIMAL",
         nxm_header |-> NXM_HEADER(0, 9, 2), oxm_header |-> OXM_HEADER(13, 2)],
     MFF_IN_PORT |->
        [id |-> "MFF_IN_PORT", name |-> <<"i","n","_","p","o","r","t">>,
         n_bytes |-> 2, n_bits |-> 16, writable |-> FALSE, string |-> "MFS_DECIMAL",
         nxm_header |-> NXM_HEADER(0, 0, 2), oxm_header |-> OXM_HEADER(0, 4)],
     MFF_IP_TTL |->
        [id |-> "MFF_IP_TTL", name |-> <<"n","w","_","t","t","l">>,
         n_bytes |-> 1, n_bits |-> 8, writable |-> TRUE, string |-> "MFS_DECIMAL",
         nxm_header |-> NXM_HEADER(1, 29, 1), oxm_header |-> ZeroHeader]]

MfIds == DOMAIN mf_fields

NULL == "NULL"

\* the field whose NXM or OXM header is `header', or NULL
mf_from_nxm_header(header) ==
    LET hit == {id \in MfIds : header # ZeroHeader /\
                   (mf_fields[id].nxm_header = header \/ mf_fields[id].oxm_header = header)}
    IN  IF hit = {} THEN NULL ELSE CHOOSE id \in hit : TRUE

\* big-endian integer held in a value buffer
BeInt(value) ==
    LET RECURSIVE acc(_, _)
        acc(i, a) == IF i > Len(value) THEN a ELSE acc(i + 1, a * 256 + value[i])
    IN  acc(1, 0)

mf_is_value_valid(mf, value) ==
    CASE mf = "MFF_VLAN_PCP" -> value[1] \div 8 = 0      \* !(u8 & ~7)
      [] OTHER -> TRUE

----------------------------------------------------------------------------
(* set-field.c *)

sizeof_oasf == 8

OFPAT12_SET_FIELD == 25

OFPERR_OFPBAC_BAD_ARGUMENT == "OFPERR_OFPBAC_BAD_ARGUMENT"

\* the enum ofperr value 0: success
NoError == "0"

AllowedIds ==
    {"MFF_ETH_SRC", "MFF_ETH_DST", "MFF_ETH_TYPE", "MFF_VLAN_VID", "MFF_VLAN_PCP",
     "MFF_IP_DSCP", "MFF_IP_ECN", "MFF_IP_PROTO", "MFF_IPV4_SRC", "MFF_IPV4_DST",
     "MFF_TCP_SRC", "MFF_TCP_DST", "MFF_UDP_SRC", "MFF_UDP_DST",
     "MFF_ICMPV4_TYPE", "MFF_ICMPV4_CODE", "MFF_ARP_OP", "MFF_ARP_SPA", "MFF_ARP_TPA",
     "MFF_ARP_SHA", "MFF_ARP_THA", "MFF_IPV6_SRC", "MFF_IPV6_DST", "MFF_IPV6_LABEL",
     "MFF_ICMPV6_TYPE", "MFF_ICMPV6_CODE", "MFF_ND_TARGET", "MFF_ND_SLL", "MFF_ND_TLL",
     "MFF_MPLS_LABEL", "MFF_MPLS_TC"}

\* the switch on mf->id is left out
set_field_mf_allowed_no_switch(mf) ==
    mf_fields[mf].writable /\ mf_fields[mf].oxm_header # ZeroHeader

set_field_mf_allowed(mf) ==
    IF ~mf_fields[mf].writable \/ mf_fields[mf].oxm_header = ZeroHeader
    THEN FALSE
    ELSE mf_fields[mf].id \in AllowedIds

\* ofpact_put_REG_LOAD: a zeroed OFPACT_REG_LOAD appended to the list
ofpact_REG_LOAD ==
    [type |-> "OFPACT_REG_LOAD", compat |-> "OFPUTIL_ACTION_INVALID",
     dst |-> [field |-> NULL, ofs |-> 0, n_bits |-> 0], value |-> <<>>]

set_field_init(ld, mf) ==
    [ld EXCEPT !.compat = "OFPUTIL_OFPAT12_SET_FIELD",
               !.dst = [field |-> mf, ofs |-> 0, n_bits |-> mf_fields[mf].n_bits]]

\* result of set_field_check: 0 or the error, with the return statement that fired
set_field_check(ld) ==
    LET mf == ld.dst.field
    IN  IF ~set_field_mf_allowed(mf)
        THEN [error |-> OFPERR_OFPBAC_BAD_ARGUMENT, kind |-> "DisallowedField"]
        ELSE IF ~mf_is_value_valid(mf, ld.value)
        THEN [error |-> OFPERR_OFPBAC_BAD_ARGUMENT, kind |-> "InvalidValue"]
        ELSE [error |-> NoError, kind |-> "Ok"]


\* nxm_reg_load_check: a load decoded from a set-field action is checked by
\* set_field_check (the flow argument is NULL and unused)
nxm_reg_load_check(ld) == set_field_check(ld)

\* the value is copied from oasf->field instead of from oasf + 1
from_openflow_load_from_field(oasf, acts, mf) ==
    LET ld == [set_field_init(ofpact_REG_LOAD, mf) EXCEPT
                   !.value = Bytes(oasf, 4, mf_fields[mf].n_bytes)]
        chk == nxm_reg_load_check(ld)
    IN  [error |-> chk.error, kind |-> chk.kind, ofpacts |-> Append(acts, ld),
         lookups |-> 1,
         copied |-> 4 .. (4 + mf_fields[mf].n_bytes - 1)]

\* lines 163-167: append the load, fill it, run the check
from_openflow_load(oasf, acts, mf) ==
    LET ld == [set_field_init(ofpact_REG_LOAD, mf) EXCEPT
                   !.value = Bytes(oasf, sizeof_oasf, mf_fields[mf].n_bytes)]
        chk == nxm_reg_load_check(ld)
    IN  [error |-> chk.error, kind |-> chk.kind, ofpacts |-> Append(acts, ld),
         lookups |-> 1,
         copied |-> sizeof_oasf .. (sizeof_oasf + mf_fields[mf].n_bytes - 1)]

\* an error return taken before anything is appended
from_openflow_fail(kind, acts, lookups) ==
    [error |-> OFPERR_OFPBAC_BAD_ARGUMENT, kind |-> kind, ofpacts |-> acts,
     lookups |-> lookups, copied |-> {}]

\* lines 159-162
from_openflow_lookup(oasf, acts, oxm_header) ==
    LET mf == mf_from_nxm_header(oxm_header)
    IN  IF mf = NULL \/ mf_fields[mf].oxm_header = ZeroHeader
        THEN from_openflow_fail("UnknownField", acts, 1)
        ELSE from_openflow_load(oasf, acts, mf)

\* the mask bit is not looked at
from_openflow_mask_skipped(oasf, acts, oxm_header) ==
    from_openflow_lookup(oasf, acts, oxm_header)

\* lines 156-158
from_openflow_mask(oasf, acts, oxm_header) ==
    IF NXM_HASMASK(oxm_header) # 0
    THEN from_openflow_fail("MaskedFieldNotSupported", acts, 0)
    ELSE from_openflow_lookup(oasf, acts, oxm_header)

\* the loop starts one byte late
PaddingNonZero_late(oasf, from, len) ==
    \E i \in (from + 1) .. (len - 1) : ByteAt(oasf, i) # 0

\* lines 150-154: for (i = sizeof(*oasf) + oxm_length; i < len; i++)
PaddingNonZero(oasf, from, len) ==
    \E i \in from .. (len - 1) : ByteAt(oasf, i) # 0

from_openflow_padding(oasf, acts, len, oxm_header, oxm_length) ==
    IF PaddingNonZero(oasf, sizeof_oasf + oxm_length, len)
    THEN from_openflow_fail("BadPadding", acts, 0)
    ELSE from_openflow_mask(oasf, acts, oxm_header)

\* the declared length is only required to be large enough
from_openflow_length_at_least(oasf, acts, len, oxm_header, oxm_length) ==
    IF len < ROUND_UP(sizeof_oasf + oxm_length, 8)
    THEN from_openflow_fail("BadLength", acts, 0)
    ELSE from_openflow_padding(oasf, acts, len, oxm_header, oxm_length)

\* lines 147-149
from_openflow_length(oasf, acts, len, oxm_header, oxm_length) ==
    IF len # ROUND_UP(sizeof_oasf + oxm_length, 8)
    THEN from_openflow_fail("BadLength", acts, 0)
    ELSE from_openflow_padding(oasf, acts, len, oxm_header, oxm_length)

set_field_from_openflow(oasf, acts) ==
    LET len == ntohs(Bytes(oasf, 2, 2)) % 65536
        oxm_header == ntohl(Bytes(oasf, 4, 4))
        oxm_length == NXM_LENGTH(oxm_header) % 256
    IN  from_openflow_length(oasf, acts, len, oxm_header, oxm_length)

\* ofputil_put_OFPAT12_SET_FIELD: the fixed part, type set and field[] zeroed
ofputil_put_OFPAT12_SET_FIELD(len_field, oxm_header) ==
    htons(OFPAT12_SET_FIELD) \o htons(len_field) \o htonl(oxm_header)

\* line 188 stores the unpadded length
encode_len_field_unpadded(len, roundup) == len

\* line 188: oasf->len = htons(roundup)
encode_len_field(len, roundup) == roundup

\* line 191
put_padding(roundup, len) == Zeros(roundup - len)

set_field_to_openflow(ld, buf) ==
    LET mf == mf_fields[ld.dst.field]
        len == (sizeof_oasf + mf.n_bytes) % 65536
        roundup == ROUND_UP(len, 8) % 65536
    IN  buf \o ofputil_put_OFPAT12_SET_FIELD(encode_len_field(len, roundup), mf.oxm_header)
            \o Bytes(ld.value, 0, mf.n_bytes)
            \o put_padding(roundup, len)

----------------------------------------------------------------------------
(* Text: a string is a sequence of one-character strings *)

Arrow == <<"-", ">">>

SetFieldPrefix == <<"s","e","t","_","f","i","e","l","d",":">>

HexDigits == <<"0","1","2","3","4","5","6","7","8","9","a","b","c","d","e","f">>

\* value of character c as a digit of the given base, or -1
DigitVal(c, base) ==
    LET hit == {d \in 0..(base - 1) : HexDigits[d + 1] = c}
    IN  IF hit = {} THEN -1 ELSE CHOOSE d \in hit : TRUE

RECURSIVE FmtInt(_, _)
\* printf's %u (base 10) and %x (base 16) of n
FmtInt(n, base) ==
    IF n < base THEN <<HexDigits[n + 1]>>
    ELSE FmtInt(n \div base, base) \o <<HexDigits[(n % base) + 1]>>

\* mf_format_integer_string: "%llu" or "%#llx" of the big-endian integer
mf_format_integer_string(mf, value) ==
    LET n == BeInt(value)
    IN  IF mf_fields[mf].string = "MFS_HEXADECIMAL" /\ n # 0
        THEN <<"0", "x">> \o FmtInt(n, 16)
        ELSE FmtInt(n, 10)

\* ip_format: four decimal octets separated by dots
ip_format(value) ==
    FmtInt(value[1], 10) \o <<".">> \o FmtInt(value[2], 10) \o <<".">>
        \o FmtInt(value[3], 10) \o <<".">> \o FmtInt(value[4], 10)

mf_format(mf, value) ==
    IF mf_fields[mf].string = "MFS_IPV4"
    THEN ip_format(value)
    ELSE mf_format_integer_string(mf, value)

\* cap of the integers the text parser accumulates
ParseCap == 100000

RECURSIVE ScanDigits(_, _, _, _)
\* digits of `base' read from position i of txt: [val, next]
ScanDigits(txt, i, base, acc) ==
    IF i > Len(txt) \/ DigitVal(txt[i], base) < 0 THEN [val |-> acc, next |-> i]
    ELSE ScanDigits(txt, i + 1, base,
                    IF acc * base + DigitVal(txt[i], base) > ParseCap THEN ParseCap
                    ELSE acc * base + DigitVal(txt[i], base))

\* strtoull(txt, &tail, 0): base from the prefix; [val, next], next = 1 when no
\* digits were read
strtoull0(txt) ==
    IF Len(txt) >= 3 /\ txt[1] = "0" /\ txt[2] = "x" /\ DigitVal(txt[3], 16) >= 0
    THEN ScanDigits(txt, 3, 16, 0)
    ELSE IF Len(txt) >= 1 /\ txt[1] = "0"
    THEN ScanDigits(txt, 1, 8, 0)
    ELSE ScanDigits(txt, 1, 10, 0)

\* the n low bytes of integer v, big-endian
IntBytes(v, n) ==
    LET RECURSIVE pw(_)
        pw(k) == IF k = 0 THEN 1 ELSE 256 * pw(k - 1)
    IN  [i \in 1..n |-> (v \div pw(n - i)) % 256]

\* 256^n, the first integer too large for n bytes; beyond 2 bytes it is above
\* every integer the scanner returns
Pow256(n) == IF n = 1 THEN 256 ELSE IF n = 2 THEN 65536 ELSE ParseCap + 1

\* mf_from_integer_string: [error, value]
mf_from_integer_string(mf, txt) ==
    LET r == strtoull0(txt)
        n == mf_fields[mf].n_bytes
    IN  IF r.next <= Len(txt)
        THEN [error |-> "bad syntax", value |-> <<>>]
        ELSE IF r.val >= Pow256(n)
        THEN [error |-> "value too large", value |-> <<>>]
        ELSE [error |-> NULL, value |-> IntBytes(r.val, n)]

\* mf_from_ipv4_string: four decimal octets, each at most 255, and nothing else
mf_from_ipv4_string(txt) ==
    LET a == ScanDigits(txt, 1, 10, 0)
        b == ScanDigits(txt, a.next + 1, 10, 0)
        c == ScanDigits(txt, b.next + 1, 10, 0)
        d == ScanDigits(txt, c.next + 1, 10, 0)
        dot(i) == i <= Len(txt) /\ txt[i] = "."
    IN  IF /\ a.next > 1 /\ dot(a.next)
           /\ b.next > a.next + 1 /\ dot(b.next)
           /\ c.next > b.next + 1 /\ dot(c.next)
           /\ d.next > c.next + 1 /\ d.next = Len(txt) + 1
           /\ a.val <= 255 /\ b.val <= 255 /\ c.val <= 255 /\ d.val <= 255
        THEN [error |-> NULL, value |-> <<a.val, b.val, c.val, d.val>>]
        ELSE [error |-> "invalid IP address", value |-> <<>>]

mf_parse_value(mf, txt) ==
    IF mf_fields[mf].string = "MFS_IPV4"
    THEN mf_from_ipv4_string(txt)
    ELSE mf_from_integer_string(mf, txt)

\* the field named `key', or NULL
mf_parse_oxm_name(key) ==
    LET hit == {id \in MfIds : mf_fields[id].name = key}
    IN  IF hit = {} THEN NULL ELSE CHOOSE id \in hit : TRUE

\* strstr(txt, "->"): position of the first occurrence, or 0
strstr_arrow(txt) ==
    LET at == {i \in 1..(Len(txt) - 1) : txt[i] = Arrow[1] /\ txt[i + 1] = Arrow[2]}
    IN  IF at = {} THEN 0 ELSE CHOOSE i \in at : \A j \in at : i <= j

set_field_format(ld, ds) ==
    ds \o SetFieldPrefix \o mf_format(ld.dst.field, ld.value)
       \o Arrow \o mf_fields[ld.dst.field].name

\* ovs_fatal: the process exits; what the list held at that point is kept
parse_fatal(kind, msg, acts, parses) ==
    [error |-> "ovs_fatal", kind |-> kind, msg |-> msg, ofpacts |-> acts,
     value_parses |-> parses]

\* set_field_init is left out
parse_value_stage_no_init(value, mf, acts) ==
    LET r  == mf_parse_value(mf, value)
        ld == [ofpact_REG_LOAD EXCEPT !.value = r.value]
    IN  IF r.error # NULL
        THEN parse_fatal("InvalidValueSyntax", r.error, Append(acts, ofpact_REG_LOAD), 1)
        ELSE IF ~mf_is_value_valid(mf, r.value)
        THEN parse_fatal("InvalidValue", "is not valid valid for field",
                         Append(acts, ld), 1)
        ELSE [error |-> NoError, kind |-> "Ok", msg |-> NULL,
              ofpacts |-> Append(acts, ld), value_parses |-> 1]

\* lines 233-241, reached with an allowed field
parse_value_stage(value, mf, acts) ==
    LET r  == mf_parse_value(mf, value)
        ld == [ofpact_REG_LOAD EXCEPT !.value = r.value]
    IN  IF r.error # NULL
        THEN parse_fatal("InvalidValueSyntax", r.error, Append(acts, ofpact_REG_LOAD), 1)
        ELSE IF ~mf_is_value_valid(mf, r.value)
        THEN parse_fatal("InvalidValue", "is not valid valid for field",
                         Append(acts, ld), 1)
        ELSE [error |-> NoError, kind |-> "Ok", msg |-> NULL,
              ofpacts |-> Append(acts, set_field_init(ld, mf)), value_parses |-> 1]

\* the value is parsed before the field is checked against the allow-list
parse_field_stage_value_first(value, key, acts) ==
    LET mf == mf_parse_oxm_name(key)
    IN  IF mf = NULL
        THEN parse_fatal("UnknownFieldName", "is not valid oxm field name",
                         Append(acts, ofpact_REG_LOAD), 0)
        ELSE IF parse_value_stage(value, mf, acts).error # NoError
        THEN parse_value_stage(value, mf, acts)
        ELSE IF ~set_field_mf_allowed(mf)
        THEN parse_fatal("DisallowedField", "is not allowed to set",
                         Append(acts, ofpact_REG_LOAD), 1)
        ELSE parse_value_stage(value, mf, acts)

\* lines 224-231
parse_field_stage(value, key, acts) ==
    LET mf == mf_parse_oxm_name(key)
    IN  IF mf = NULL
        THEN parse_fatal("UnknownFieldName", "is not valid oxm field name",
                         Append(acts, ofpact_REG_LOAD), 0)
        ELSE IF ~set_field_mf_allowed(mf)
        THEN parse_fatal("DisallowedField", "is not allowed to set",
                         Append(acts, ofpact_REG_LOAD), 0)
        ELSE parse_value_stage(value, mf, acts)

\* lines 207-222: the load is appended first, then the delimiter is looked for
set_field_parse(arg, acts) ==
    LET delim == strstr_arrow(arg)
    IN  IF delim = 0
        THEN parse_fatal("SyntaxError", "missing `->'", Append(acts, ofpact_REG_LOAD), 0)
        ELSE IF Len(arg) - delim + 1 <= Len(Arrow)
        THEN parse_fatal("SyntaxError", "missing field name following `->'",
                         Append(acts, ofpact_REG_LOAD), 0)
        ELSE parse_field_stage(SubSeq(arg, 1, delim - 1),
                               SubSeq(arg, delim + Len(Arrow), Len(arg)), acts)

----------------------------------------------------------------------------
(* Inputs *)

\* headers a record may carry: every header of the registry, three masked
\* headers, and unknown headers declaring 0, 1, 7, 8 and 9 value bytes
WireHeaders ==
    {mf_fields[id].nxm_header : id \in MfIds} \cup
    {mf_fields[id].oxm_header : id \in MfIds} \cup
    {OXM_HEADER_W(11, 4), NXM_HEADER__(OXM_CLASS, 11, 1, 4),
     NXM_HEADER__(OXM_CLASS, 60, 1, 9)} \cup
    {OXM_HEADER(60, n) : n \in {0, 1, 7, 8, 9}}

\* byte values of the bytes that follow the fixed part of a record
RecVals == {0, 10}

\* the bytes after the fixed part: up to 4 free bytes, then zeros with at most
\* one non-zero byte among them
RecordBodies(n) ==
    LET k == IF n < 4 THEN n ELSE 4
    IN  {v \o p : v \in [1..k -> RecVals],
                  p \in {Zeros(n - k)} \cup
                        {[Zeros(n - k) EXCEPT ![j] = 1] : j \in 1..(n - k)}}

\* a record as the caller hands it over: at least the fixed part, and the
\* declared length of bytes when that is more
MkRecord(len, header, body) ==
    htons(OFPAT12_SET_FIELD) \o htons(len) \o htonl(header) \o body

DeclaredLens == {4 * u : u \in 1..(2 * MaxLenUnits)}

\* values a caller may put in an action for field mf
Values(mf) == [1..mf_fields[mf].n_bytes -> ByteVals]

\* texts tried as the value part of the parser's argument
ValueTexts ==
    UNION {{mf_format(mf, v) : v \in Values(mf)} : mf \in MfIds} \cup
    {<<>>, <<"x">>, <<"9","9","9">>, <<"1","0",".","0",".","0",".","9","9","9">>}

\* texts tried as the field-name part of the parser's argument
NameTexts ==
    {mf_fields[id].name : id \in MfIds} \cup {<<>>, <<"n","x","_","n","o">>}

\* another kind of instruction already in the list
OtherOfpact == [type |-> "OFPACT_OUTPUT"]

NoLoad == [type |-> "none"]

NoRet == [op |-> "none"]

----------------------------------------------------------------------------
(* The caller: one call at a time on its buffers *)

Init ==
    /\ pc = "idle"
    /\ load = NoLoad
    /\ openflow = <<>>
    /\ ofpacts = <<>>
    /\ s = <<>>
    /\ ret = NoRet

\* an instruction of another kind is appended to the list
PutOther ==
    /\ pc = "idle"
    /\ Len(ofpacts) < MaxPrior
    /\ ofpacts' = Append(ofpacts, OtherOfpact)
    /\ UNCHANGED <<pc, load, openflow, s, ret>>

\* the caller builds an action itself: set_field_init and a value
MakeLoad ==
    /\ pc = "idle"
    /\ \E mf \in MfIds : \E v \in Values(mf) :
          load' = [set_field_init(ofpact_REG_LOAD, mf) EXCEPT !.value = v]
    /\ pc' = "loaded"
    /\ UNCHANGED <<openflow, ofpacts, s, ret>>

Check ==
    /\ pc = "loaded"
    /\ ret' = [op |-> "check", res |-> set_field_check(load)]
    /\ pc' = "done"
    /\ UNCHANGED <<load, openflow, ofpacts, s>>

Encode ==
    /\ pc = "loaded"
    /\ openflow' = set_field_to_openflow(load, openflow)
    /\ pc' = "encoded"
    /\ UNCHANGED <<load, ofpacts, s, ret>>

\* the call of set_field_from_openflow on record oasf
DoDecode(op, oasf) ==
    LET r == set_field_from_openflow(oasf, ofpacts)
    IN  /\ ret' = [op |-> op, oasf |-> oasf, before |-> ofpacts, res |-> r]
        /\ ofpacts' = r.ofpacts
        /\ pc' = "done"

\* the record just encoded is decoded
DecodeEncoded ==
    /\ pc = "encoded"
    /\ DoDecode("decode_encoded", openflow)
    /\ UNCHANGED <<load, openflow, s>>

\* a record from the wire is decoded
Decode ==
    /\ pc = "idle"
    /\ \E len \in DeclaredLens : \E h \in WireHeaders :
          \E body \in RecordBodies(IF len > sizeof_oasf THEN len - sizeof_oasf ELSE 0) :
             DoDecode("decode", MkRecord(len, h, body))
    /\ UNCHANGED <<load, openflow, s>>

Format ==
    /\ pc = "loaded"
    /\ s' = set_field_format(load, s)
    /\ pc' = "formatted"
    /\ UNCHANGED <<load, openflow, ofpacts, ret>>

\* the call of set_field_parse on arg
DoParse(op, arg) ==
    LET r == set_field_parse(arg, ofpacts)
    IN  /\ ret' = [op |-> op, arg |-> arg, before |-> ofpacts, res |-> r]
        /\ ofpacts' = r.ofpacts
        /\ pc' = "done"

\* the formatted text is parsed as it is
ParseFormatted ==
    /\ pc = "formatted"
    /\ DoParse("parse_formatted", s)
    /\ UNCHANGED <<load, openflow, s>>

\* the formatted text is parsed after the caller has taken "set_field:" off
ParseStripped ==
    /\ pc = "formatted"
    /\ DoParse("parse_stripped", SubSeq(s, Len(SetFieldPrefix) + 1, Len(s)))
    /\ UNCHANGED <<load, openflow, s>>

\* a text from the command line is parsed
Parse ==
    /\ pc = "idle"
    /\ \E pre \in {<<>>, SetFieldPrefix} : \E v \in ValueTexts :
          \E d \in {<<>>, Arrow, <<"-">>} : \E n \in NameTexts :
             DoParse("parse", pre \o v \o d \o n)
    /\ UNCHANGED <<load, openflow, s>>

\* the caller takes the outcome and clears its buffers (after ovs_fatal: a
\* new run of the program)
Clear ==
    /\ pc = "done"
    /\ pc' = "idle"
    /\ load' = NoLoad
    /\ openflow' = <<>>
    /\ ofpacts' = <<>>
    /\ s' = <<>>
    /\ ret' = NoRet

Next ==
    \/ PutOther
    \/ MakeLoad
    \/ Check
    \/ Encode
    \/ DecodeEncoded
    \/ Decode
    \/ Format
    \/ ParseFormatted
    \/ ParseStripped
    \/ Parse
    \/ Clear

Spec == Init /\ [][Next]_vars

----------------------------------------------------------------------------
(* Properties *)

Decoded == ret.op \in {"decode", "decode_encoded"}

Parsed == ret.op \in {"parse", "parse_formatted", "parse_stripped"}

\* the declared total length, header code and declared value length of the
\* record that was decoded
RecLen == ret.oasf[3] * 256 + ret.oasf[4]

RecHeader == [hi |-> ret.oasf[5] * 256 + ret.oasf[6], lo |-> ret.oasf[7] * 256 + ret.oasf[8]]

RecValueLen == ret.oasf[8]

RecMasked == ret.oasf[7] % 2 = 1

\* the least multiple of 8 that is at least x
RoundedUp8(x) == CHOOSE m \in x..(x + 7) : m % 8 = 0

RecLenOk == RecLen = RoundedUp8(8 + RecValueLen)

\* offsets of the padding region holding a non-zero byte
RecBadPadding == {i \in (8 + RecValueLen)..(RecLen - 1) : ret.oasf[i + 1] # 0}

\* the field the record's header resolves to, or NULL
RecField == mf_from_nxm_header(RecHeader)

\* membership of the allow-list: writable, a wire header, an allowed identifier
InAllowList(mf) ==
    /\ mf_fields[mf].writable
    /\ mf_fields[mf].oxm_header # ZeroHeader
    /\ mf_fields[mf].id \in AllowedIds

\* the action {target mf, offset 0, full width, value v}
SetFieldAction(mf, v) ==
    [type |-> "OFPACT_REG_LOAD", compat |-> "OFPUTIL_OFPAT12_SET_FIELD",
     dst |-> [field |-> mf, ofs |-> 0, n_bits |-> mf_fields[mf].n_bits], value |-> v]

\* the call succeeded and appended exactly the action a
Yields(a) == ret.res.error = NoError /\ ofpacts = Append(ret.before, a)

Ipv4Example == SetFieldAction("MFF_IPV4_SRC", <<10, 0, 0, 1>>)

\* C1: an action on an allow-listed field with a valid value, encoded and then
\* decoded, comes back as the same action: same target, offset 0, full width,
\* same value bytes.
C1_WireRoundTrip ==
    (ret.op = "decode_encoded" /\ InAllowList(load.dst.field)
        /\ mf_is_value_valid(load.dst.field, load.value))
    => Yields(SetFieldAction(load.dst.field, load.value))

C1_Witness ==
    ret.op = "decode_encoded" /\ load = Ipv4Example /\ Yields(Ipv4Example)

\* the text after the first "->" of the parsed argument, and the text before it
ArgArrows == {i \in 1..(Len(ret.arg) - 1) : ret.arg[i] = "-" /\ ret.arg[i + 1] = ">"}

ArgSplit == CHOOSE i \in ArgArrows : \A j \in ArgArrows : i <= j

ArgName == SubSeq(ret.arg, ArgSplit + 2, Len(ret.arg))

ArgValue == SubSeq(ret.arg, 1, ArgSplit - 1)

ArgField == IF ArgArrows = {} \/ ArgName = <<>> THEN NULL ELSE mf_parse_oxm_name(ArgName)

\* C2: a field whose identifier is outside the allow-list is refused with
\* DisallowedField, by the decoder for a well-formed unmasked record whose header
\* resolves to it (a field with a zero wire header is refused before, as unknown)
\* and by the parser for a text naming it; no call that succeeds appends an
\* action whose target is outside the allow-list.
C2_AllowListExclusivity ==
    /\ (Decoded /\ RecLenOk /\ RecBadPadding = {} /\ ~RecMasked /\ RecField # NULL
          /\ mf_fields[RecField].oxm_header # ZeroHeader
          /\ mf_fields[RecField].id \notin AllowedIds)
       => (ret.res.error # NoError /\ ret.res.kind = "DisallowedField")
    /\ (Parsed /\ ArgField # NULL /\ mf_fields[ArgField].id \notin AllowedIds)
       => (ret.res.error # NoError /\ ret.res.kind = "DisallowedField")
    /\ ((Decoded \/ Parsed) /\ ret.res.error = NoError)
       => (    ofpacts # <<>>
           /\ ofpacts[Len(ofpacts)].dst.field # NULL
           /\ mf_fields[ofpacts[Len(ofpacts)].dst.field].id \in AllowedIds)

C2_Witness ==
    /\ ret.op = "decode" /\ RecLenOk /\ RecBadPadding = {} /\ ~RecMasked
    /\ RecField = "MFF_VLAN_TCI" /\ mf_fields[RecField].writable
    /\ ret.res.kind = "DisallowedField"

\* C3: a record whose declared length is not 8 + its declared value length
\* rounded up to a multiple of 8 is refused with BadLength, whatever its
\* padding, mask bit and field are: nothing is looked up, nothing appended.
C3_LengthMismatch ==
    (Decoded /\ ~RecLenOk)
    => (    ret.res.error # NoError /\ ret.res.kind = "BadLength"
        /\ ret.res.lookups = 0 /\ ofpacts = ret.before)

C3_Witness ==
    /\ ret.op = "decode" /\ RecValueLen = 9 /\ RecLen = 16 /\ RecMasked
    /\ ret.res.kind = "BadLength"

\* C4: with the declared length right, a non-zero byte in the padding region
\* is refused with BadPadding and nothing is appended; BadPadding is reported
\* only for a record that has such a byte.
C4_PaddingStrictness ==
    /\ (Decoded /\ RecLenOk /\ RecBadPadding # {})
       => (ret.res.error # NoError /\ ret.res.kind = "BadPadding" /\ ofpacts = ret.before)
    /\ (Decoded /\ ret.res.kind = "BadPadding")
       => (RecLenOk /\ RecBadPadding # {})

C4_Witness ==
    /\ ret.op = "decode" /\ RecLenOk /\ RecBadPadding = {8 + RecValueLen}
    /\ RecField = "MFF_IPV4_SRC" /\ ret.res.kind = "BadPadding"

\* C5: a record whose header has the mask bit set is never looked up and never
\* yields an action; when its length and padding are right it is refused with
\* MaskedFieldNotSupported.
C5_MaskedRejection ==
    (Decoded /\ RecMasked)
    => (    ret.res.error # NoError /\ ret.res.lookups = 0 /\ ofpacts = ret.before
        /\ ((RecLenOk /\ RecBadPadding = {}) => ret.res.kind = "MaskedFieldNotSupported"))

C5_Witness ==
    /\ ret.op = "decode" /\ RecMasked /\ RecLenOk /\ RecBadPadding = {}
    /\ ret.res.kind = "MaskedFieldNotSupported"

\* C6 as stated: the text set_field_format produces, parsed by set_field_parse,
\* gives back the action.
C6_TextRoundTripAsFormatted ==
    (ret.op = "parse_formatted" /\ InAllowList(load.dst.field)
        /\ mf_is_value_valid(load.dst.field, load.value))
    => Yields(SetFieldAction(load.dst.field, load.value))

\* C6 amended: the text set_field_format produces, with its leading "set_field:"
\* taken off, parsed by set_field_parse, gives back the action.
C6_TextRoundTripStripped ==
    (ret.op = "parse_stripped" /\ InAllowList(load.dst.field)
        /\ mf_is_value_valid(load.dst.field, load.value))
    => Yields(SetFieldAction(load.dst.field, load.value))

C6_Witness ==
    ret.op = "parse_stripped" /\ load = Ipv4Example /\ Yields(Ipv4Example)

\* C7: set_field_parse reports its first failing check in the order delimiter,
\* field name present, field name known, field allowed, value syntax, value
\* validity; the value parser is not run for an unknown or disallowed field.
C7_ParseOrder ==
    Parsed =>
      IF ArgArrows = {}
        THEN ret.res.kind = "SyntaxError" /\ ret.res.msg = "missing `->'"
              /\ ret.res.value_parses = 0
      ELSE IF ArgName = <<>>
        THEN ret.res.kind = "SyntaxError" /\ ret.res.value_parses = 0
              /\ ret.res.msg = "missing field name following `->'"
      ELSE IF ArgField = NULL
        THEN ret.res.kind = "UnknownFieldName" /\ ret.res.value_parses = 0
      ELSE IF ~InAllowList(ArgField)
        THEN ret.res.kind = "DisallowedField" /\ ret.res.value_parses = 0
      ELSE IF mf_parse_value(ArgField, ArgValue).error # NULL
        THEN ret.res.kind = "InvalidValueSyntax"
      ELSE IF ~mf_is_value_valid(ArgField, mf_parse_value(ArgField, ArgValue).value)
        THEN ret.res.kind = "InvalidValue"
      ELSE ret.res.kind = "Ok" /\ ret.res.error = NoError

C7_Witness ==
    /\ ret.op = "parse" /\ ArgField = "MFF_VLAN_TCI" /\ ArgValue = <<"x">>
    /\ ret.res.kind = "DisallowedField" /\ ret.res.value_parses = 0

\* the record the encoder wrote for the caller's action
EncLenField == openflow[3] * 256 + openflow[4]

EncWidth == mf_fields[load.dst.field].n_bytes

\* C8 as stated: for IPv4 source 10.0.0.1 the total-length field is 12 and the
\* record has no padding; in general the total-length field is the number of
\* bytes written, 8 + the byte width rounded up to a multiple of 8.
C8_EncodeExampleLength12 ==
    pc = "encoded" =>
      /\ EncLenField = Len(openflow)
      /\ EncLenField = RoundedUp8(8 + EncWidth)
      /\ load = Ipv4Example =>
           (EncLenField = 12 /\ Len(openflow) = 8 + EncWidth)

\* C8 amended: for IPv4 source 10.0.0.1 the total-length field is 16: type and
\* length, the header code H, the value bytes 10 0 0 1, and 4 zero bytes of
\* padding; in general the total-length field is the number of bytes written,
\* 8 + the byte width rounded up to a multiple of 8.
C8_EncodeExampleLength16 ==
    pc = "encoded" =>
      /\ EncLenField = Len(openflow)
      /\ EncLenField = RoundedUp8(8 + EncWidth)
      /\ load = Ipv4Example =>
           openflow = <<0, 25, 0, 16>> \o <<128, 0, 22, 4>> \o <<10, 0, 0, 1>>
                        \o <<0, 0, 0, 0>>

C8_Witness ==
    pc = "encoded" /\ load = Ipv4Example /\ EncLenField = 16 /\ Len(openflow) = 16

\* C9: when set_field_from_openflow returns an error the instruction list is
\* as it was before the call.
C9_NoPartialDecode ==
    (Decoded /\ ret.res.error # NoError) => ofpacts = ret.before

\* C10: a record whose declared value length differs from the byte width of
\* the field its header resolves to is refused with BadLength, and no byte at or
\* beyond offset 8 + declared value length is copied into an action.
C10_DeclaredWidthAgreement ==
    (Decoded /\ RecField # NULL /\ RecValueLen # mf_fields[RecField].n_bytes)
    => (    ret.res.error # NoError /\ ret.res.kind = "BadLength"
        /\ ret.res.copied = {})

=============================================================================
